---- MODULE Spec2Model ----
(***************************************************************************)
(* JATA browser extension: the Selector Engine (content script            *)
(* scraper.ts), the Relay (background.ts) and the Popup Controller         *)
(* (App.tsx), with the message channels that connect the three processes.  *)
(***************************************************************************)
EXTENDS Bags, FiniteSets, Integers, Sequences, TLC

\* ------------------------------------------------------------------ bounds
\* Number of times the user may press a Select button of the popup.
MaxSelects == 2
\* Number of the popup's fields (in the order of ApplicationData) whose
\* Select button the user presses.
MaxFields == 2
\* Number of saves that may be awaiting the persistence call at once.
MaxSaves == 2
\* Number of elements of the documents createCssSelector is applied to.
MaxNodes == 4
\* Number of requests another extension page (not this popup) may send.
MaxUiSends == 2
\* Number of messages delivered to the content script when it runs alone.
MaxCommands == 3
\* rows the database ever stores
MaxRows == 1

\* null for node references (el.parentElement, overlay, highlightedEl)
NULL == 0
\* useState<ScrapingField>(null): no pending field
NoField == "none"
\* a message without a data property
NoData == [none |-> TRUE]

\* ------------------------------------------------------- the page under test
\* The document the content script runs in: its elements with, for each, the
\* parent element, tag name, id, class list, own text and z-index.
VARIABLE doc

\* The page of the engine's and the extension's runs:
\*   1 <html>
\*   2   <body>
\*   3     <h1 id="title"> Staff Engineer </h1>
\*   4     <ul>
\*   5       <li class="item">A</li>
\*   6       <li class="item">B </li>
\*   7     <div class="toast" style="z-index:2147483647">Hi</div>
\* Text nodes directly under an element are a sequence of tokens; " " and
\* "\n" are white space. z-index 0: not positioned.
StaffPage ==
  [parent |-> [e \in 1..7 |->
                 CASE e = 1 -> NULL
                   [] e \in {2} -> 1
                   [] e \in {3, 4, 7} -> 2
                   [] e \in {5, 6} -> 4],
   tag |-> [e \in 1..7 |->
              CASE e = 1 -> "HTML" [] e = 2 -> "BODY" [] e = 3 -> "H1"
                [] e = 4 -> "UL" [] e \in {5, 6} -> "LI" [] e = 7 -> "DIV"],
   id |-> [e \in 1..7 |-> IF e = 3 THEN "title" ELSE ""],
   classes |-> [e \in 1..7 |->
                  CASE e \in {5, 6} -> <<"item">> [] e = 7 -> <<"toast">>
                    [] OTHER -> <<>>],
   text |-> [e \in 1..7 |->
               CASE e = 3 -> <<" ", "Staff", " ", "Engineer", " ">>
                 [] e = 5 -> <<"A">>
                 [] e = 6 -> <<"B", " ">>
                 [] e = 7 -> <<"Hi">>
                 [] e = 4 -> <<"\n">>
                 [] OTHER -> <<>>],
   zIndex |-> [e \in 1..7 |-> IF e = 7 THEN 2147483647 ELSE 0]]

PageElements == DOMAIN doc.parent
BODY == 2

ParentOf == doc.parent
TagOf == doc.tag
IdOf == doc.id
ClassListOf == doc.classes
OwnText == doc.text
ZIndexOf == doc.zIndex

\* The points the pointer is moved to and clicks at, each named by the page
\* element whose box is uppermost there: the heading and the toast.
\* element.click() is called on the same elements.
Positions == {3, 7}

\* Overlay nodes created by createOverlay are numbered after the page's own.
OverlayHandles == {8, 9}
OverlayId == "jata-scraper-overlay"
OverlayZIndex == 999999
OverlayText == <<"Click", " ", "an", " ", "element">>

Nodes == PageElements \cup OverlayHandles

\* The document node: the object the engine's listeners are registered on, and
\* the target of an event a page script dispatches on it. It is a Node and
\* not an Element.
DOCUMENT == 10

\* ---------------------------------------------------------- DOM accessors
\* el.parentElement, el.tagName, el.id, el.classList for page and overlay nodes
parentElement(n) == IF n \in OverlayHandles THEN BODY ELSE ParentOf[n]
tagName(n) == IF n \in OverlayHandles THEN "DIV" ELSE TagOf[n]
elId(n) == IF n \in OverlayHandles THEN OverlayId ELSE IdOf[n]
classList(n) == IF n \in OverlayHandles THEN <<>> ELSE ClassListOf[n]

\* The set {1..n} sorted ascending as a sequence restricted to S.
RECURSIVE SortedSeq(_)
SortedSeq(S) ==
  IF S = {} THEN <<>>
  ELSE LET m == CHOOSE x \in S : \A y \in S : x <= y
       IN <<m>> \o SortedSeq(S \ {m})

\* p.children in document order; ov is the set of overlay nodes attached to
\* the body (appendChild puts them after the page's own children).
children(p, ov) ==
  SortedSeq({e \in PageElements : ParentOf[e] = p}
            \cup (IF p = BODY THEN ov ELSE {}))

\* Array.prototype.filter
RECURSIVE SelectSeqBy(_, _)
SelectSeqBy(s, tag) ==
  IF s = <<>> THEN <<>>
  ELSE (IF tagName(Head(s)) = tag THEN <<Head(s)>> ELSE <<>>)
       \o SelectSeqBy(Tail(s), tag)

\* Array.prototype.indexOf (0-based, -1 when absent)
RECURSIVE IndexOfFrom(_, _, _)
IndexOfFrom(s, x, i) ==
  IF i > Len(s) THEN -1
  ELSE IF s[i] = x THEN i - 1 ELSE IndexOfFrom(s, x, i + 1)
indexOf(s, x) == IndexOfFrom(s, x, 1)

\* Array.prototype.join
RECURSIVE join(_, _)
join(s, sep) ==
  IF s = <<>> THEN ""
  ELSE IF Len(s) = 1 THEN s[1]
  ELSE s[1] \o sep \o join(Tail(s), sep)

\* String.prototype.toLowerCase on the tag names of the page
toLowerCase(t) ==
  CASE t = "HTML" -> "html" [] t = "BODY" -> "body" [] t = "H1" -> "h1"
    [] t = "UL" -> "ul" [] t = "LI" -> "li" [] t = "DIV" -> "div"

\* the descriptor with the 0-based index of indexOf
SelectorPart_ZeroBased(el, ov) ==
  LET tag == toLowerCase(tagName(el))
      classes == join(classList(el), ".")
      withClasses == IF classes # "" THEN tag \o "." \o classes ELSE tag
      siblings == children(parentElement(el), ov)
      sameTagSiblings == SelectSeqBy(siblings, tagName(el))
  IN IF Len(sameTagSiblings) > 1
     THEN withClasses \o ":nth-of-type("
            \o ToString(indexOf(sameTagSiblings, el)) \o ")"
     ELSE withClasses

\* One descriptor of createCssSelector for a node without id (lines 26-36).
SelectorPart(el, ov) ==
  LET tag == toLowerCase(tagName(el))
      classes == join(classList(el), ".")
      withClasses == IF classes # "" THEN tag \o "." \o classes ELSE tag
      siblings == children(parentElement(el), ov)
      sameTagSiblings == SelectSeqBy(siblings, tagName(el))
  IN IF Len(sameTagSiblings) > 1
     THEN withClasses \o ":nth-of-type("
            \o ToString(indexOf(sameTagSiblings, el) + 1) \o ")"
     ELSE withClasses

\* The while loop of createCssSelector: parts accumulated by unshift.
RECURSIVE SelectorParts(_, _, _)
SelectorParts(el, ov, parts) ==
  IF parentElement(el) = NULL THEN parts
  ELSE IF elId(el) # ""
       THEN <<toLowerCase(tagName(el)) \o "#" \o elId(el)>> \o parts
       ELSE SelectorParts(parentElement(el), ov, <<SelectorPart(el, ov)>> \o parts)

createCssSelector(el, ov) == join(SelectorParts(el, ov, <<>>), " > ")

\* el instanceof Element (scraper.ts 15): createCssSelector throws on a node
\* that is not an element.
IsElement(n) == n \in Nodes

\* Node.textContent: the text of the node and of its descendants, in
\* document order.
RECURSIVE textContent(_, _)
RECURSIVE ConcatText(_, _)
ConcatText(s, ov) ==
  IF s = <<>> THEN <<>> ELSE textContent(Head(s), ov) \o ConcatText(Tail(s), ov)
textContent(n, ov) ==
  IF n \in OverlayHandles THEN OverlayText
  ELSE OwnText[n] \o ConcatText(children(n, ov), ov)

IsSpace(c) == c \in {" ", "\n"}

\* String.prototype.trim
RECURSIVE TrimLeft(_)
TrimLeft(s) ==
  IF s # <<>> /\ IsSpace(Head(s)) THEN TrimLeft(Tail(s)) ELSE s
RECURSIVE TrimRight(_)
TrimRight(s) ==
  IF s # <<>> /\ IsSpace(s[Len(s)]) THEN TrimRight(SubSeq(s, 1, Len(s) - 1)) ELSE s
trim(s) == TrimRight(TrimLeft(s))

\* ------------------------------------------- documents and CSS evaluation
\* The documents of at most MaxNodes elements: element 1 is the root <html>,
\* every other element is a <div> or a <li class="item"> whose parent is an
\* earlier element, and any set of elements carries ids, each its own.
IdName(e) == "n" \o ToString(e)

Parents(n) ==
  {f \in [1..n -> 0..n] : f[1] = NULL /\ \A e \in 2..n : f[e] \in 1..(e - 1)}

TagsOf(n) ==
  {f \in [1..n -> {"HTML", "DIV", "LI"}] :
     f[1] = "HTML" /\ \A e \in 2..n : f[e] # "HTML"}

DocsOfSize(n) ==
  {[parent |-> par,
    tag |-> tg,
    id |-> [e \in 1..n |-> IF e \in I THEN IdName(e) ELSE ""],
    classes |-> [e \in 1..n |-> IF tg[e] = "LI" THEN <<"item">> ELSE <<>>],
    text |-> [e \in 1..n |-> <<>>],
    zIndex |-> [e \in 1..n |-> 0]] :
     par \in Parents(n), tg \in TagsOf(n), I \in SUBSET (1..n)}

Documents == UNION {DocsOfSize(n) : n \in 1..MaxNodes} \cup {StaffPage}

\* document.querySelectorAll on the selectors made of compound selectors
\* (type, #id, .class, :nth-of-type) joined by the child combinator.
\* The elements of e's type among the children of e's parent, up to e.
NthOfType(e) ==
  Cardinality({x \in PageElements :
                 ParentOf[x] = ParentOf[e] /\ TagOf[x] = TagOf[e] /\ x <= e})

\* The sequences of distinct classes of e, as .a.b
ClassSelectors(e) ==
  LET cl == {ClassListOf[e][i] : i \in 1..Len(ClassListOf[e])}
  IN {""} \cup
     UNION {{"." \o join(q, ".") :
               q \in {f \in [1..k -> cl] :
                        \A i, j \in 1..k : f[i] = f[j] => i = j}} :
            k \in 1..Cardinality(cl)}

\* The compound selectors element e satisfies.
CompoundsOf(e) ==
  {toLowerCase(TagOf[e]) \o idp \o clp \o nthp :
     idp \in {""} \cup (IF IdOf[e] # "" THEN {"#" \o IdOf[e]} ELSE {}),
     clp \in ClassSelectors(e),
     nthp \in {"", ":nth-of-type(" \o ToString(NthOfType(e)) \o ")"}}

\* The selectors element e satisfies: a compound of e, preceded or not by a
\* selector of its parent and the child combinator.
RECURSIVE SelectorsOf(_)
SelectorsOf(e) ==
  CompoundsOf(e) \cup
    (IF ParentOf[e] = NULL THEN {}
     ELSE {pre \o " > " \o c : pre \in SelectorsOf(ParentOf[e]),
                                c \in CompoundsOf(e)})

\* The empty string is no selector: it matches nothing.
querySelectorAll(selector) ==
  {e \in PageElements : selector \in SelectorsOf(e)}

\* ------------------------------------------------------------------ state
VARIABLES
  \* content process (scraper.ts)
  scraperState,   \* [isActive, overlay, highlightedEl]
  overlayNodes,   \* overlay nodes attached to document.body
  outline,        \* nodes whose style.outline is the engine's outline
  cursor,         \* document.body.style.cursor
  listeners,      \* listeners registered on document: [type, fn, k]
  \* message channels
  reqs,           \* requests travelling through the relay, with their replies
  toPopup,        \* elementSelected messages in flight to the popup listener
  \* popup process (App.tsx)
  data,           \* the ApplicationData record
  isScraping,     \* the pending field, or NoField
  statusMessage,
  saving,         \* runs of handleSave awaiting the persistence call
  submitted,      \* the records those runs were started with, oldest first
  \* environment
  nSelect,        \* Select presses so far
  nUiSend,        \* requests sent by other extension pages so far
  \* API functions (apps/api/supabase/functions)
  applications,   \* the rows of the 'applications' table
  nextId,         \* the id the database gives the next inserted row
  response,       \* the HTTP response of the last handled request
  createdBy,      \* for each row id, the user.id of the caller who created it
  last            \* the operation that produced this state

contentVars == <<scraperState, overlayNodes, outline, cursor, listeners, doc>>
popupVars == <<data, isScraping, statusMessage, saving, submitted>>
apiVars == <<applications, nextId, response, createdBy>>
vars == <<doc, scraperState, overlayNodes, outline, cursor, listeners, reqs,
          toPopup, data, isScraping, statusMessage, saving, submitted, nSelect,
          nUiSend,
          applications, nextId, response, createdBy, last>>

\* ------------------------------------------------- Selector Engine (content)
MouseoverL == [type |-> "mouseover", fn |-> "mouseoverHandler", k |-> 0]
ClickL == [type |-> "click", fn |-> "clickHandler", k |-> 0]
\* keydownHandler is a closure created by each call of startScraping
KeydownL(k) == [type |-> "keydown", fn |-> "keydownHandler", k |-> k]
KeydownIds == 1..(MaxSelects + MaxUiSends + 1)

IdleState == [isActive |-> FALSE, overlay |-> NULL, highlightedEl |-> NULL]

\* The content process's page-side state as one value, so that handlers
\* compose within one event dispatch.
Page ==
  [scraperState |-> scraperState, overlayNodes |-> overlayNodes,
   outline |-> outline, cursor |-> cursor, listeners |-> listeners]

SetPage(P) ==
  /\ scraperState' = P.scraperState
  /\ overlayNodes' = P.overlayNodes
  /\ outline' = P.outline
  /\ cursor' = P.cursor
  /\ listeners' = P.listeners
  /\ doc' = doc

\* cleanup that leaves the outline on the highlighted element
cleanup_KeepsOutline(P) ==
  IF ~P.scraperState.isActive THEN P
  ELSE [P EXCEPT
         !.listeners = @ \ {MouseoverL, ClickL},
         !.overlayNodes = IF P.scraperState.overlay # NULL
                          THEN @ \ {P.scraperState.overlay} ELSE @,
         !.scraperState = IdleState,
         !.cursor = "default"]

\* cleanup that leaves the click listener registered
cleanup_KeepsClickListener(P) ==
  IF ~P.scraperState.isActive THEN P
  ELSE [P EXCEPT
         !.listeners = @ \ {MouseoverL},
         !.overlayNodes = IF P.scraperState.overlay # NULL
                          THEN @ \ {P.scraperState.overlay} ELSE @,
         !.outline = IF P.scraperState.highlightedEl # NULL
                     THEN @ \ {P.scraperState.highlightedEl} ELSE @,
         !.scraperState = IdleState,
         !.cursor = "default"]

\* cleanup (scraper.ts 56-72)
cleanup(P) ==
  IF ~P.scraperState.isActive THEN P
  ELSE [P EXCEPT
         !.listeners = @ \ {MouseoverL, ClickL},
         !.overlayNodes = IF P.scraperState.overlay # NULL
                          THEN @ \ {P.scraperState.overlay} ELSE @,
         !.outline = IF P.scraperState.highlightedEl # NULL
                     THEN @ \ {P.scraperState.highlightedEl} ELSE @,
         !.scraperState = IdleState,
         !.cursor = "default"]

\* mouseoverHandler leaving the outline on the element highlighted before
mouseoverHandler_KeepsPrevious(P, target) ==
  IF P.scraperState.highlightedEl = target THEN P
  ELSE [P EXCEPT
         !.outline = @ \cup {target},
         !.scraperState.highlightedEl = target]

\* mouseoverHandler (scraper.ts 78-91)
mouseoverHandler(P, target) ==
  IF P.scraperState.highlightedEl = target THEN P
  ELSE [P EXCEPT
         !.outline = (IF P.scraperState.highlightedEl # NULL
                      THEN @ \ {P.scraperState.highlightedEl} ELSE @)
                     \cup {target},
         !.scraperState.highlightedEl = target]

\* The data object built by clickHandler (scraper.ts 108-111)
SelectionData(P, clickedEl) ==
  [selector |-> createCssSelector(clickedEl, P.overlayNodes),
   textContent |-> trim(textContent(clickedEl, P.overlayNodes))]

\* createOverlay (scraper.ts 122-141): a new div appended to the body; the
\* node is the first unused handle.
NewOverlay(P) == CHOOSE h \in OverlayHandles \ P.overlayNodes :
                   \A g \in OverlayHandles \ P.overlayNodes : h <= g

\* the style createOverlay gives the overlay: pointer-events is not set
OverlayPointerEvents == "auto"

NewKeydownId(P) ==
  CHOOSE k \in KeydownIds :
    /\ KeydownL(k) \notin P.listeners
    /\ \A j \in KeydownIds : KeydownL(j) \notin P.listeners => k <= j

\* startScraping without the isActive guard
startScraping_NoGuard(P) ==
  [P EXCEPT
    !.scraperState = [isActive |-> TRUE, overlay |-> NewOverlay(P),
                      highlightedEl |-> P.scraperState.highlightedEl],
    !.overlayNodes = @ \cup {NewOverlay(P)},
    !.cursor = "crosshair",
    !.listeners = @ \cup {MouseoverL, ClickL, KeydownL(NewKeydownId(P))}]

\* startScraping (scraper.ts 146-171)
startScraping(P) ==
  IF P.scraperState.isActive THEN P
  ELSE [P EXCEPT
         !.scraperState = [isActive |-> TRUE, overlay |-> NewOverlay(P),
                           highlightedEl |-> P.scraperState.highlightedEl],
         !.overlayNodes = @ \cup {NewOverlay(P)},
         !.cursor = "crosshair",
         !.listeners = @ \cup {MouseoverL, ClickL, KeydownL(NewKeydownId(P))}]

\* the closure cancelling the selection on any key
keydownHandler_AnyKey(P, k, key) ==
  cleanup([P EXCEPT !.listeners = @ \ {KeydownL(k)}])

\* keydownHandler (scraper.ts 163-169), the closure numbered k
keydownHandler(P, k, key) ==
  IF key = "Escape"
  THEN cleanup([P EXCEPT !.listeners = @ \ {KeydownL(k)}])
  ELSE P

\* clickHandler (scraper.ts 98-117): the page state after the handler, the
\* messages it passed to chrome.runtime.sendMessage, and whether it ended by
\* an exception. The handler has no try block: when createCssSelector throws
\* (line 109), lines 113-116 are not run.
clickHandler(P, clickedEl) ==
  IF clickedEl = NULL
  THEN [page |-> cleanup(P), sent |-> <<>>, threw |-> FALSE]
  ELSE IF ~IsElement(clickedEl)
  THEN [page |-> P, sent |-> <<>>, threw |-> TRUE]
  ELSE [page |-> cleanup(P),
        sent |-> <<[action |-> "elementSelected",
                    data |-> SelectionData(P, clickedEl)]>>,
        threw |-> FALSE]

\* The element a pointer event at a point over page element pos is targeted
\* at: the topmost box under the point that takes pointer events. The overlay
\* is position:fixed at 0,0 with 100vw x 100vh and z-index 999999.
HitTest(P, pos) ==
  IF /\ P.overlayNodes # {}
     /\ OverlayPointerEvents # "none"
     /\ ZIndexOf[pos] <= OverlayZIndex
  THEN CHOOSE h \in P.overlayNodes : \A g \in P.overlayNodes : g <= h
  ELSE pos

\* ------------------------------------------------------------- messages
StartMsg == [action |-> "startScraping", data |-> NoData]
StartedReply == [status |-> "Scraping started"]
CanceledReply == [status |-> "Scraping canceled"]
NoActiveTabError == [error |-> "No active tab found."]
ContentUnavailableError == [error |-> "Content script not available or not listening."]
SuccessReply == [status |-> "success"]
Undefined == [undefined |-> TRUE]

\* chrome.runtime.sendMessage(msg, callback?) called by `sender`: a request
\* on its way to the background listener. The record is the message with the
\* callbacks waiting for it: the field of handleSelect's closure, where the
\* request is now (stage), the tab it was forwarded to, the content script's
\* reply and the relay's response.
NewReq(sender, field, msg) ==
  [sender |-> sender, field |-> field, msg |-> msg, stage |-> "toRelay",
   tab |-> "none", lastError |-> FALSE, reply |-> Undefined,
   portError |-> FALSE, value |-> Undefined]

\* The record of the operation of a step: its name, the node it was about, a
\* detail, what it sent or answered, and whether the engine was Active before
\* it. The steps that only move a request along its channel, whose record is
\* the request itself, are all named "channel".
Step(op, node, info, out, pre) ==
  last' = [op |-> op, node |-> node, info |-> info, out |-> out, wasActive |-> pre]

\* reqs is a bag: two requests may be equal in every field.
InFlight == BagToSet(reqs)
Add(r) == reqs (+) SetToBag({r})
Remove(r) == reqs (-) SetToBag({r})
Replace(r, x) == (reqs (-) SetToBag({r})) (+) SetToBag({x})

\* ------------------------------------------------------ page input events
\* The pointer moves to a point over page element pos.
MouseOver(pos) ==
  LET target == HitTest(Page, pos)
  IN /\ SetPage(IF MouseoverL \in listeners
                THEN mouseoverHandler(Page, target) ELSE Page)
     /\ IF MouseoverL \in listeners
        THEN Step("mouseover", target, ToString(scraperState.highlightedEl),
                  <<>>, scraperState.isActive)
        ELSE UNCHANGED last
     /\ UNCHANGED <<reqs, toPopup, popupVars, nSelect, nUiSend, apiVars>>

\* A click: by the pointer at a point over pos (trusted) or dispatched by
\* script on the node itself, pos.click() or, for the document,
\* document.dispatchEvent(new MouseEvent('click')).  The capture-phase
\* listener of the engine, when registered, runs once per click.
Click(pos, trusted) ==
  LET target == IF trusted THEN HitTest(Page, pos) ELSE pos
      res == clickHandler(Page, target)
      handled == ClickL \in listeners
  IN /\ SetPage(IF handled THEN res.page ELSE Page)
     /\ toPopup' = IF handled THEN toPopup \o res.sent ELSE toPopup
     /\ reqs' = IF handled /\ res.sent # <<>>
                THEN Add(NewReq("content", NoField, res.sent[1]))
                ELSE reqs
     /\ IF handled
        THEN Step(IF res.threw THEN "clickThrew"
                  ELSE IF trusted THEN "click" ELSE "scriptClick", target,
                  "defaultPrevented", res.sent, scraperState.isActive)
        ELSE UNCHANGED last
     /\ UNCHANGED <<popupVars, nSelect, nUiSend, apiVars>>

\* The registered keydown closures run one after the other on the event.
RECURSIVE RunKeydown(_, _, _)
RunKeydown(P, ks, key) ==
  IF ks = <<>> THEN P
  ELSE RunKeydown(keydownHandler(P, Head(ks), key), Tail(ks), key)

Keys == {"Escape", "Enter"}

KeyDown(key) ==
  LET ks == SortedSeq({k \in KeydownIds : KeydownL(k) \in listeners})
  IN /\ SetPage(RunKeydown(Page, ks, key))
     /\ IF ks # <<>> /\ key = "Escape"
        THEN Step("keydown", scraperState.highlightedEl, key, ks,
                  scraperState.isActive)
        ELSE UNCHANGED last
     /\ UNCHANGED <<reqs, toPopup, popupVars, nSelect, nUiSend, apiVars>>

\* --------------------------------------------------- Relay (background.ts)
\* chrome.runtime.onMessage listener (background.ts 36-71), up to the call of
\* chrome.tabs.query: a message of a content script is not processed further.
\* the listener without the sender.tab test: every message is forwarded
RelayReceive_NoSenderTest(r) ==
  Replace(r, [r EXCEPT !.stage = "query"])

RelayReceive(r) ==
  IF r.sender = "content"
  THEN Remove(r)
  ELSE Replace(r, [r EXCEPT !.stage = "query"])

RelayOnMessage(r) ==
  /\ BagIn(r, reqs) /\ r.stage = "toRelay"
  /\ reqs' = RelayReceive(r)
  /\ Step(IF r.sender = "content" THEN "relayDrop" ELSE "channel", 0, "", <<>>, FALSE)
  /\ UNCHANGED <<contentVars, toPopup, popupVars, nSelect, nUiSend, apiVars>>

\* chrome.tabs.query({active: true, currentWindow: true}): the tabs passed to
\* the callback
TabIdOf(t) == CASE t = "page" -> 11 [] t = "bare" -> 12
QueryTabs(t) == IF t = "none" THEN <<>> ELSE <<[id |-> TabIdOf(t), kind |-> t]>>

\* the callback answering the other error text when there is no tab
TabsQueryCallback_WrongError(r, tabs) ==
  IF tabs # <<>> /\ tabs[1].id # 0
  THEN [r EXCEPT !.stage = "toContent", !.tab = tabs[1].kind]
  ELSE [r EXCEPT !.stage = "toSender", !.value = ContentUnavailableError]

\* callback of chrome.tabs.query (background.ts 47-66)
TabsQueryCallback(r, tabs) ==
  IF tabs # <<>> /\ tabs[1].id # 0
  THEN [r EXCEPT !.stage = "toContent", !.tab = tabs[1].kind]
  ELSE [r EXCEPT !.stage = "toSender", !.value = NoActiveTabError]

\* activeTab: the tab that is active when the query runs: "none", "page" (it
\* runs the content script) or "bare" (it runs none)
RelayTabsQuery(r, activeTab) ==
  /\ BagIn(r, reqs) /\ r.stage = "query"
  /\ reqs' = Replace(r, TabsQueryCallback(r, QueryTabs(activeTab)))
  /\ Step("channel", 0, "", <<>>, FALSE)
  /\ UNCHANGED <<contentVars, toPopup, popupVars, nSelect, nUiSend, apiVars>>

\* the callback without the chrome.runtime.lastError test
SendMessageCallback_NoErrorTest(r) ==
  [r EXCEPT !.stage = "toSender", !.value = r.reply]

\* the callback answering every request with the acknowledgment of a start
SendMessageCallback_SameAnswer(r) ==
  [r EXCEPT !.stage = "toSender", !.value = StartedReply]

\* callback of chrome.tabs.sendMessage (background.ts 51-61)
SendMessageCallback(r) ==
  IF r.lastError
  THEN [r EXCEPT !.stage = "toSender", !.value = ContentUnavailableError]
  ELSE [r EXCEPT !.stage = "toSender", !.value = r.reply]

RelaySendMessageCallback(r) ==
  /\ BagIn(r, reqs) /\ r.stage = "toRelayCb"
  /\ reqs' = Replace(r, SendMessageCallback(r))
  /\ Step("channel", 0, "", <<>>, FALSE)
  /\ UNCHANGED <<contentVars, toPopup, popupVars, nSelect, nUiSend, apiVars>>

\* the listener starting the engine without answering
ContentListener_NoAck(P, message) ==
  IF message.action = "startScraping"
  THEN [page |-> startScraping(P), response |-> Undefined]
  ELSE IF message.action = "cancelScraping"
  THEN [page |-> cleanup(P), response |-> CanceledReply]
  ELSE [page |-> P, response |-> Undefined]

\* --------------------------------- content script's chrome.runtime.onMessage
\* listener (scraper.ts 176-185): the page state after it and its response
\* (Undefined: sendResponse is not called, the channel stays open).
ContentListener(P, message) ==
  IF message.action = "startScraping"
  THEN [page |-> startScraping(P), response |-> StartedReply]
  ELSE IF message.action = "cancelScraping"
  THEN [page |-> cleanup(P), response |-> CanceledReply]
  ELSE [page |-> P, response |-> Undefined]

ContentOnMessage(r) ==
  /\ BagIn(r, reqs) /\ r.stage = "toContent" /\ r.tab = "page"
  /\ LET res == ContentListener(Page, r.msg)
     IN /\ SetPage(res.page)
        /\ reqs' = Replace(r, IF res.response = Undefined
                               THEN [r EXCEPT !.stage = "open"]
                               ELSE [r EXCEPT !.stage = "toRelayCb",
                                              !.reply = res.response])
  /\ Step("contentOnMessage", 0, r.msg.action,
          ContentListener(Page, r.msg).response, scraperState.isActive)
  /\ UNCHANGED <<toPopup, popupVars, nSelect, nUiSend, apiVars>>

\* The content script's listener run on a message that chrome.tabs.sendMessage
\* delivers, whoever sent it; the response goes back to that sender.
TabsSendMessage(action) ==
  /\ nUiSend < MaxCommands
  /\ LET res == ContentListener(Page, [action |-> action, data |-> NoData])
     IN /\ SetPage(res.page)
        /\ Step("contentOnMessage", 0, action, res.response, scraperState.isActive)
  /\ nUiSend' = nUiSend + 1
  /\ UNCHANGED <<reqs, toPopup, popupVars, nSelect, apiVars>>

\* The tab the message was sent to runs no content script: the callback of
\* chrome.tabs.sendMessage is called with chrome.runtime.lastError set.
NoReceiver(r) ==
  /\ BagIn(r, reqs) /\ r.stage = "toContent" /\ r.tab = "bare"
  /\ reqs' = Replace(r, [r EXCEPT !.stage = "toRelayCb", !.lastError = TRUE])
  /\ Step("channel", 0, "", <<>>, FALSE)
  /\ UNCHANGED <<contentVars, toPopup, popupVars, nSelect, nUiSend, apiVars>>

\* A channel the content listener kept open without responding is closed by
\* the browser: lastError "message port closed before a response was received".
ChannelClosed(r) ==
  /\ BagIn(r, reqs) /\ r.stage = "open"
  /\ reqs' = Replace(r, [r EXCEPT !.stage = "toRelayCb", !.lastError = TRUE])
  /\ Step("channel", 0, "", <<>>, FALSE)
  /\ UNCHANGED <<contentVars, toPopup, popupVars, nSelect, nUiSend, apiVars>>

\* The background service worker is stopped while a request it has accepted
\* is unanswered: the sender's callback runs with chrome.runtime.lastError.
WorkerStopped(r) ==
  /\ BagIn(r, reqs) /\ r.stage \in {"query", "toRelayCb"}
  /\ reqs' = Replace(r, [r EXCEPT !.stage = "toSender", !.portError = TRUE])
  /\ Step("channel", 0, "", <<>>, FALSE)
  /\ UNCHANGED <<contentVars, toPopup, popupVars, nSelect, nUiSend, apiVars>>

\* ------------------------------------------- Popup Controller (App.tsx)
FieldOrder == <<"jobTitle", "companyName", "jobUrl", "jobDescription">>
Fields == {FieldOrder[i] : i \in 1..Len(FieldOrder)}
\* the fields the user selects
UserFields == {FieldOrder[i] : i \in 1..(IF MaxFields < Len(FieldOrder)
                                          THEN MaxFields ELSE Len(FieldOrder))}
EmptyData == [f \in Fields |-> <<>>]

\* handleSelect (App.tsx 67-82), up to the call of chrome.runtime.sendMessage.
\* The Select buttons are disabled while isScraping is set (App.tsx 133).
SelectEnabled == isScraping = NoField

\* handleSelect reachable while a field is pending
handleSelect_NoGuard(field) ==
  /\ nSelect < MaxSelects
  /\ field # NoField
  /\ isScraping' = field
  /\ statusMessage' = "Selecting " \o field \o "..."
  /\ reqs' = Add(NewReq("popup", field, StartMsg))
  /\ nSelect' = nSelect + 1
  /\ Step("handleSelect", 0, field, <<>>, scraperState.isActive)
  /\ UNCHANGED <<contentVars, toPopup, data, saving, submitted, nUiSend, apiVars>>

\* handleSelect setting the pending field without sending the request
handleSelect_NoSend(field) ==
  /\ SelectEnabled
  /\ nSelect < MaxSelects
  /\ field # NoField
  /\ isScraping' = field
  /\ statusMessage' = "Selecting " \o field \o "..."
  /\ nSelect' = nSelect + 1
  /\ Step("handleSelect", 0, field, <<>>, scraperState.isActive)
  /\ UNCHANGED <<contentVars, reqs, toPopup, data, saving, submitted, nUiSend, apiVars>>

handleSelect(field) ==
  /\ SelectEnabled
  /\ nSelect < MaxSelects
  /\ field # NoField
  /\ isScraping' = field
  /\ statusMessage' = "Selecting " \o field \o "..."
  /\ reqs' = Add(NewReq("popup", field, StartMsg))
  /\ nSelect' = nSelect + 1
  /\ Step("handleSelect", 0, field, <<>>, scraperState.isActive)
  /\ UNCHANGED <<contentVars, toPopup, data, saving, submitted, nUiSend, apiVars>>

\* callback of chrome.runtime.sendMessage in handleSelect (App.tsx 73-81)
StartCallback(r) ==
  /\ BagIn(r, reqs) /\ r.stage = "toSender" /\ r.sender = "popup"
  /\ IF r.portError
     THEN /\ statusMessage' = "Error: Could not start selector."
          /\ isScraping' = NoField
     ELSE UNCHANGED <<statusMessage, isScraping>>
  /\ reqs' = Remove(r)
  /\ Step("startCallback", 0, IF r.portError THEN "lastError" ELSE "response",
          <<>>, scraperState.isActive)
  /\ UNCHANGED <<contentVars, toPopup, data, saving, submitted, nSelect, nUiSend, apiVars>>

\* the listener replacing the record by one holding the new text only
messageListener_DropsOthers(message, d, pending) ==
  IF message.action = "elementSelected" /\ message.data # NoData /\ pending # NoField
  THEN [data |-> [EmptyData EXCEPT ![pending] = message.data.textContent],
        isScraping |-> NoField, response |-> SuccessReply]
  ELSE [data |-> d, isScraping |-> pending, response |-> Undefined]

\* messageListener (App.tsx 42-53): the popup's state after the message, and
\* its response (Undefined: sendResponse is not called). The effect
\* registers the listener anew whenever isScraping changes (line 60): the
\* listener that runs reads the isScraping of the latest render.
messageListener(message, d, pending) ==
  IF message.action = "elementSelected" /\ message.data # NoData /\ pending # NoField
  THEN [data |-> [d EXCEPT ![pending] = message.data.textContent],
        isScraping |-> NoField, response |-> SuccessReply]
  ELSE [data |-> d, isScraping |-> pending, response |-> Undefined]

PopupOnMessage ==
  /\ toPopup # <<>>
  /\ LET res == messageListener(Head(toPopup), data, isScraping)
     IN /\ data' = res.data
        /\ isScraping' = res.isScraping
        /\ Step("messageListener", 0, Head(toPopup).action, res.response,
                scraperState.isActive)
  /\ toPopup' = Tail(toPopup)
  /\ UNCHANGED <<contentVars, reqs, statusMessage, saving, submitted, nSelect, nUiSend, apiVars>>

\* handleSave (App.tsx 87-110), up to the await: the Save button is disabled
\* while isScraping is set (App.tsx 145) and stays enabled during a save.
handleSave ==
  /\ isScraping = NoField
  /\ saving < MaxSaves
  /\ statusMessage' = "Saving..."
  /\ saving' = saving + 1
  /\ submitted' = Append(submitted, data)
  /\ Step("handleSave", 0, "", data, scraperState.isActive)
  /\ UNCHANGED <<contentVars, reqs, toPopup, data, isScraping, nSelect, nUiSend, apiVars>>

\* The outcome of the awaited persistence call: it returns (TRUE), or it
\* throws and the catch block runs (FALSE). The call of the repository's
\* function is commented out in handleSave (lines 94-98), where a timer that
\* always resolves stands for it; the failing outcome is the persistence
\* collaborator's structured error.
SaveOutcomes == BOOLEAN

\* a successful save that keeps the record
SaveSettles_KeepsRecord(ok) ==
  /\ saving > 0
  /\ saving' = saving - 1
  /\ submitted' = Tail(submitted)
  /\ UNCHANGED data
  /\ statusMessage' = IF ok THEN "Application Saved Successfully!"
                      ELSE "Error: Could not save application."
  /\ Step("saveSettled", 0, IF ok THEN "saved" ELSE "error", data,
          scraperState.isActive)
  /\ UNCHANGED <<contentVars, reqs, toPopup, isScraping, nSelect, nUiSend, apiVars>>

\* handleSave (App.tsx 101-109), after the await
SaveSettles(ok) ==
  /\ saving > 0
  /\ saving' = saving - 1
  /\ submitted' = Tail(submitted)
  /\ IF ok
     THEN /\ statusMessage' = "Application Saved Successfully!"
          /\ data' = EmptyData
     ELSE /\ statusMessage' = "Error: Could not save application."
          /\ UNCHANGED data
  /\ Step("saveSettled", 0, IF ok THEN "saved" ELSE "error", data,
          scraperState.isActive)
  /\ UNCHANGED <<contentVars, reqs, toPopup, isScraping, nSelect, nUiSend, apiVars>>

\* ------------------------------------------------------------ environment
\* Another page of the extension sends a request to the background listener.
UiActions == {"startScraping", "cancelScraping", "ping"}

UiSend(action) ==
  /\ nUiSend < MaxUiSends
  /\ reqs' = Add(NewReq("ui", NoField, [action |-> action, data |-> NoData]))
  /\ nUiSend' = nUiSend + 1
  /\ Step("channel", 0, "", <<>>, FALSE)
  /\ UNCHANGED <<contentVars, toPopup, popupVars, nSelect, apiVars>>

\* The other page's callback takes the response.
UiCallback(r) ==
  /\ BagIn(r, reqs) /\ r.stage = "toSender" /\ r.sender = "ui"
  /\ reqs' = Remove(r)
  /\ Step("channel", 0, "", <<>>, FALSE)
  /\ UNCHANGED <<contentVars, toPopup, popupVars, nSelect, nUiSend, apiVars>>

Tabs == {"none", "page", "bare"}


\* ------------------------------------ API functions (apps/api/supabase)
\* supabase.auth.getUser() resolves to { data: { user }, error }. user.id is a
\* string; NoUser stands for a null user.
NoUser == "none"
UserIds == {"1a", "1b", "2c", "x9"}
AuthResults ==
  {[error |-> FALSE, user |-> u] : u \in UserIds \cup {NoUser}}
    \cup {[error |-> TRUE, user |-> NoUser], [error |-> TRUE, user |-> "1a"]}

\* Request bodies (parsed JSON objects; a key the object lacks is not in its
\* domain).
Bodies ==
  { [title |-> "Staff Engineer", company |-> "Acme"],
    [title |-> "Staff Engineer", company |-> "Acme", status |-> "Applied",
     date_applied |-> "2023-01-01T00:00:00Z"],
    [title |-> "Staff Engineer", company |-> "Acme", user_id |-> "2c"],
    [title |-> "Staff Engineer", company |-> "Acme", date_applied |-> "2023-01-01"],
    [title |-> "Staff Engineer", company |-> "Acme", status |-> "Bogus"],
    [company |-> "Acme"],
    [title |-> "Staff Engineer", user_id |-> "2c"],
    [invalid |-> "data"] }

Methods == {"POST", "GET", "OPTIONS"}

\* What the database does with an insert: it stores the row and returns it,
\* returns an error, returns neither data nor error, or the call rejects.
DbOutcomes == {"ok", "error", "empty", "throw"}
DbErrorMessage == "connection refused"

\* z.string().datetime(): an ISO 8601 date and time.
IsDatetime(s) == s = "2023-01-01T00:00:00Z"

StatusEnum == {"Applied", "Interviewing", "Offer", "Rejected"}
applicationCreateKeys == {"title", "company", "status", "date_applied", "url"}

\* applicationCreateSchema.safeParse(body): z.object requires title and
\* company, checks the optional keys that are present and strips the keys the
\* schema does not name.
safeParse(body) ==
  LET has(k) == k \in DOMAIN body
      success == /\ has("title") /\ has("company")
                 /\ has("status") => body["status"] \in StatusEnum
                 /\ has("date_applied") => IsDatetime(body["date_applied"])
  IN [success |-> success,
      data |-> [k \in DOMAIN body \cap applicationCreateKeys |-> body[k]],
      issues |-> ({"title", "company"} \ DOMAIN body)
                   \cup {k \in {"status"} \cap DOMAIN body : body[k] \notin StatusEnum}
                   \cup {k \in {"date_applied"} \cap DOMAIN body :
                            ~IsDatetime(body[k])}]

NoResponse == [status |-> 0]
Json(status, body) == [status |-> status, body |-> body]

\* userError || !user
Unauthenticated_IgnoresError(auth) == auth.user = NoUser

Unauthenticated(auth) == auth.error \/ auth.user = NoUser

\* { ...result.data, user_id: user.id }
applicationDataOf_BodyWins(req, result) ==
  req.body @@ ("user_id" :> req.auth.user)

applicationDataOf(req, result) ==
  ("user_id" :> req.auth.user) @@ result.data

\* insert(row).select().single() on the table, with the database's outcome:
\* the table afterwards, the data and the error returned.
insert(table, id, row, outcome) ==
  LET stored == ("id" :> id) @@ row
  IN CASE outcome = "ok" ->
            [table |-> table \cup {stored}, nextId |-> id + 1,
             data |-> stored, hasData |-> TRUE, error |-> FALSE]
       [] OTHER ->
            [table |-> table, nextId |-> id, data |-> Undefined,
             hasData |-> FALSE, error |-> outcome = "error"]

\* res.status(500).json({ error: 'Database error', details: insertError.message })
DatabaseError_Created(message) == Json(201, [error |-> "Database error"])

DatabaseError(message) ==
  Json(500, [error |-> "Database error", details |-> message])

\* handler(req, res, next) of applications-create, run to its response: the
\* table and the next id afterwards, and the response. corsMiddleware answers
\* a preflight request itself and never calls the handler's body.
handler(req, table, id) ==
  LET same(resp) == [table |-> table, nextId |-> id, response |-> resp]
      result == safeParse(req.body)
      ins == insert(table, id, applicationDataOf(req, result), req.db)
      done(resp) == [table |-> ins.table, nextId |-> ins.nextId, response |-> resp]
  IN CASE req.method = "OPTIONS" -> same(Json(204, Undefined))
       [] req.method # "POST" -> same(Json(405, [error |-> "Method Not Allowed"]))
       [] ~req.configured -> same(Json(500, [error |-> "Server configuration error"]))
       [] Unauthenticated(req.auth) -> same(Json(401, [error |-> "Unauthorized"]))
       [] ~result.success -> same(Json(400, [error |-> "Invalid request body",
                            details |-> result.issues]))
       [] req.db = "throw" ->
            same(Json(500, [error |-> "Internal server error",
                            details |-> DbErrorMessage]))
       [] ins.error -> done(DatabaseError(DbErrorMessage))
       [] ~ins.hasData ->
            done(Json(500, [error |-> "Failed to create application",
                            details |-> "No data returned"]))
       [] OTHER -> done(Json(201, ins.data))


\* ---- the functions served by Deno (applications-create, -update, -delete)
\* parseInt(s, 10): the number the leading digits of s spell. A string with
\* none gives NaN, written 0 here: getUserId only ever takes
\* `parseInt(user.id, 10) || null`, which is null for both.
parseInt(s) ==
  CASE s \in {"1a", "1b"} -> 1
    [] s = "2c" -> 2
    [] OTHER -> 0

\* getUserId(req): the numeric id of the caller, or null.
getUserId(auth) ==
  IF auth.error \/ auth.user = NoUser THEN NULL
  ELSE parseInt(auth.user)

ApplicationStatus == {"Applied", "Interview", "Offer", "Rejected"}
CreateApplicationKeys ==
  {"title", "company", "status", "date_applied", "url", "source", "industry"}
\* /^\d{4}-\d{2}-\d{2}$/
IsDate(s) == s = "2023-01-01"
Today == "2024-05-01"
Now == "2024-05-01T12:00:00Z"

\* The keys of the body that CreateApplicationSchema rejects.
SchemaIssues(body) ==
  {k \in {"status"} \cap DOMAIN body : body[k] \notin ApplicationStatus}
    \cup {k \in {"date_applied"} \cap DOMAIN body :
            ~(IsDatetime(body[k]) \/ IsDate(body[k]))}

\* CreateApplicationSchema.safeParse(body): date_applied defaults to today.
CreateApplicationSchema(body) ==
  LET issues == ({"title", "company"} \ DOMAIN body) \cup SchemaIssues(body)
      kept == [k \in DOMAIN body \cap CreateApplicationKeys |-> body[k]]
  IN [success |-> issues = {},
      data |-> kept @@ ("date_applied" :> Today)]

\* UpdateApplicationSchema = CreateApplicationSchema.partial(): every key is
\* optional and an absent key stays absent.
UpdateApplicationSchema(body) ==
  [success |-> SchemaIssues(body) = {},
   data |-> [k \in DOMAIN body \cap CreateApplicationKeys |-> body[k]]]

createSuccessResponse(d) == [data |-> d, error |-> NULL]
createErrorResponse(message, code) ==
  [data |-> NULL, error |-> [message |-> message, code |-> code]]

\* .eq(column, value): the rows whose cell holds that very value.
eq(rows, column, value) ==
  {row \in rows : /\ column \in DOMAIN row
                  /\ ToString(row[column]) = ToString(value)}

\* The first steps every served function takes: the preflight answer, the
\* method, the caller.
Preamble(req, method) ==
  CASE req.method = "OPTIONS" -> Json(204, Undefined)
    [] req.method # method ->
         Json(405, createErrorResponse("Method not allowed", "METHOD_NOT_ALLOWED"))
    [] getUserId(req.auth) = NULL ->
         Json(401, createErrorResponse("Unauthorized", "UNAUTHORIZED"))
    [] OTHER -> NoResponse

NotFound ==
  Json(404, createErrorResponse("Application not found or access denied", "NOT_FOUND"))

\* serve(...) of applications-create.
serveCreate(req, table, id) ==
  LET same(resp) == [table |-> table, nextId |-> id, response |-> resp]
      userId == getUserId(req.auth)
      result == CreateApplicationSchema(req.body)
      row == ("user_id" :> userId)
               @@ ("status" :> IF "status" \in DOMAIN result.data
                                 THEN result.data["status"] ELSE "applied")
               @@ result.data
      ins == insert(table, id, row, req.db)
      done(resp) == [table |-> ins.table, nextId |-> ins.nextId, response |-> resp]
  IN CASE Preamble(req, "POST") # NoResponse -> same(Preamble(req, "POST"))
       [] ~result.success ->
            same(Json(400, createErrorResponse("Validation failed", "VALIDATION_ERROR")))
       [] req.db = "throw" ->
            same(Json(500, createErrorResponse("Internal server error",
                                               "INTERNAL_SERVER_ERROR")))
       [] ins.error ->
            done(Json(500, createErrorResponse("Failed to create application",
                                               "DATABASE_ERROR")))
       [] OTHER ->
            done(Json(201, createSuccessResponse(IF ins.hasData THEN ins.data
                                                 ELSE NULL)))

\* The check both functions make before they write:
\* select("id").eq("id", applicationId).eq("user_id", userId).single()
\* returns an error unless exactly one row matches.
existingApp(req, table) ==
  eq(eq(table, "id", req.applicationId), "user_id", getUserId(req.auth))

\* serve(...) of applications-update.
serveUpdate(req, table) ==
  LET result == UpdateApplicationSchema(req.body)
      updateData == result.data
      target == eq(table, "id", req.applicationId)
      change == ("updated_at" :> Now) @@ updateData
      updated == {change @@ row : row \in target}
  IN CASE Preamble(req, "PATCH") # NoResponse ->
            [table |-> table, response |-> Preamble(req, "PATCH")]
       [] req.applicationId = NULL ->
            [table |-> table,
             response |-> Json(400, createErrorResponse("Application ID is required",
                                                        "VALIDATION_ERROR"))]
       [] ~result.success ->
            [table |-> table,
             response |-> Json(400, createErrorResponse("Validation failed",
                                                        "VALIDATION_ERROR"))]
       [] DOMAIN updateData = {} ->
            [table |-> table,
             response |-> Json(400, createErrorResponse("No fields to update",
                                                        "VALIDATION_ERROR"))]
       [] req.db = "throw" ->
            [table |-> table,
             response |-> Json(500, createErrorResponse("Internal server error",
                                                        "INTERNAL_SERVER_ERROR"))]
       [] req.db = "error" \/ Cardinality(existingApp(req, table)) # 1 ->
            [table |-> table, response |-> NotFound]
       [] req.db = "writeError" ->
            [table |-> table,
             response |-> Json(500, createErrorResponse("Failed to update application",
                                                        "DATABASE_ERROR"))]
       [] Cardinality(updated) # 1 ->
            [table |-> (table \ target) \cup updated,
             response |-> Json(500, createErrorResponse("Failed to update application",
                                                        "DATABASE_ERROR"))]
       [] OTHER ->
            [table |-> (table \ target) \cup updated,
             response |-> Json(200, createSuccessResponse(CHOOSE row \in updated : TRUE))]

\* serve(...) of applications-delete.
serveDelete(req, table) ==
  CASE Preamble(req, "DELETE") # NoResponse ->
         [table |-> table, response |-> Preamble(req, "DELETE")]
    [] req.applicationId = NULL ->
         [table |-> table,
          response |-> Json(400, createErrorResponse("Application ID is required",
                                                     "VALIDATION_ERROR"))]
    [] req.db = "throw" ->
         [table |-> table,
          response |-> Json(500, createErrorResponse("Internal server error",
                                                     "INTERNAL_SERVER_ERROR"))]
    [] req.db = "error" \/ Cardinality(existingApp(req, table)) # 1 ->
         [table |-> table, response |-> NotFound]
    [] req.db = "writeError" ->
         [table |-> table,
          response |-> Json(500, createErrorResponse("Failed to delete application",
                                                     "DATABASE_ERROR"))]
    [] OTHER ->
         [table |-> table \ eq(table, "id", req.applicationId),
          response |-> Json(200, createSuccessResponse([success |-> TRUE]))]

\* Requests: every caller, body and database outcome for a POST to a
\* configured server, one request for each other method and for a server
\* that lacks its configuration.
PlainRequest ==
  [method |-> "POST", configured |-> TRUE,
   auth |-> [error |-> FALSE, user |-> "1a"],
   body |-> [title |-> "Staff Engineer", company |-> "Acme"], db |-> "ok"]

CreateRequests ==
  {[PlainRequest EXCEPT !.auth = a, !.body = b, !.db = d] :
     a \in AuthResults, b \in Bodies, d \in DbOutcomes}
    \cup {[PlainRequest EXCEPT !.method = m] : m \in Methods}
    \cup {[PlainRequest EXCEPT !.configured = FALSE]}

\* What a step of the create handler records of its request: the method,
\* whether the server is configured, the caller, whether the body parsed,
\* whether it carried a user_id of its own, the database's outcome.
Abstract(req) ==
  [method |-> req.method, configured |-> req.configured, auth |-> req.auth,
   valid |-> safeParse(req.body).success,
   ownUserId |-> "user_id" \in DOMAIN req.body, db |-> req.db]

\* One request to the applications-create handler.
HandleCreate(req) ==
  /\ nextId <= MaxRows
  /\ LET r == handler(req, applications, nextId)
     IN /\ applications' = r.table
        /\ nextId' = r.nextId
        /\ response' = r.response
        /\ createdBy' = IF r.nextId = nextId THEN createdBy
                        ELSE (nextId :> req.auth.user) @@ createdBy
  /\ Step("handler", 0, "", Abstract(req), FALSE)
  /\ UNCHANGED <<contentVars, reqs, toPopup, popupVars, nSelect, nUiSend>>

\* Requests to the served functions. applicationId is the last segment of
\* the URL's path, NULL when it is empty.
ServedBodies ==
  { [title |-> "Staff Engineer", company |-> "Acme"],
    [title |-> "Staff Engineer"],
    [status |-> "Offer"],
    [status |-> "Bogus"],
    [user_id |-> "2c"] }
ApplicationIds == 0..MaxRows
WriteOutcomes == {"ok", "error", "writeError", "throw"}

ServeCreate(method, auth, body, db) ==
  /\ nextId <= MaxRows
  /\ LET r == serveCreate([method |-> method, auth |-> auth, body |-> body,
                           db |-> db], applications, nextId)
     IN /\ applications' = r.table
        /\ nextId' = r.nextId
        /\ response' = r.response
        /\ createdBy' = IF r.nextId = nextId THEN createdBy
                        ELSE (nextId :> auth.user) @@ createdBy
  /\ Step("serveCreate", 0, auth.user, <<>>, FALSE)
  /\ UNCHANGED <<contentVars, reqs, toPopup, popupVars, nSelect, nUiSend>>

ServeUpdate(method, auth, applicationId, body, db) ==
  /\ LET r == serveUpdate([method |-> method, auth |-> auth, body |-> body,
                           applicationId |-> applicationId, db |-> db],
                          applications)
     IN /\ applications' = r.table
        /\ response' = r.response
  /\ Step("serveUpdate", applicationId, auth.user, <<>>, FALSE)
  /\ UNCHANGED <<contentVars, reqs, toPopup, popupVars, nSelect, nUiSend, nextId,
               createdBy>>

ServeDelete(method, auth, applicationId, db) ==
  /\ LET r == serveDelete([method |-> method, auth |-> auth,
                           applicationId |-> applicationId, db |-> db],
                          applications)
     IN /\ applications' = r.table
        /\ response' = r.response
  /\ Step("serveDelete", applicationId, auth.user, <<>>, FALSE)
  /\ UNCHANGED <<contentVars, reqs, toPopup, popupVars, nSelect, nUiSend, nextId,
               createdBy>>

\* ---------------------------------------------------------- specification
Init ==
  /\ doc = StaffPage
  /\ scraperState = IdleState
  /\ overlayNodes = {}
  /\ outline = {}
  /\ cursor = ""
  /\ listeners = {}
  /\ reqs = EmptyBag
  /\ toPopup = <<>>
  /\ data = EmptyData
  /\ isScraping = NoField
  /\ statusMessage = ""
  /\ saving = 0
  /\ submitted = <<>>
  /\ nSelect = 0
  /\ nUiSend = 0
  /\ applications = {}
  /\ nextId = 1
  /\ response = NoResponse
  /\ createdBy = <<>>
  /\ last = [op |-> "init", node |-> 0, info |-> "", out |-> <<>>, wasActive |-> FALSE]

\* What the page's user does.
UserEvents ==
  \/ \E pos \in Positions : MouseOver(pos)
  \/ \E pos \in Positions, trusted \in BOOLEAN : Click(pos, trusted)
  \/ Click(DOCUMENT, FALSE)
  \/ \E key \in Keys : KeyDown(key)

\* The content script alone: it receives any of the protocol's requests at
\* any time; the results it sends reach the relay and the popup's listener.
NextEngine ==
  \/ UserEvents
  \/ \E action \in UiActions : TabsSendMessage(action)
  \/ \E r \in InFlight : RelayOnMessage(r)
  \/ PopupOnMessage

SpecEngine == Init /\ [][NextEngine]_vars

\* The relay's callbacks and the deliveries to and from the content script.
RelayActions ==
  \/ \E r \in InFlight : RelayOnMessage(r)
  \/ \E r \in InFlight, activeTab \in Tabs : RelayTabsQuery(r, activeTab)
  \/ \E r \in InFlight : RelaySendMessageCallback(r)
  \/ \E r \in InFlight : ContentOnMessage(r)
  \/ \E r \in InFlight : NoReceiver(r)
  \/ \E r \in InFlight : WorkerStopped(r)

\* The extension as shipped: the popup is the only sender of requests.
Next ==
  \/ UserEvents
  \/ RelayActions
  \/ PopupOnMessage
  \/ \E field \in UserFields : handleSelect(field)
  \/ \E r \in InFlight : StartCallback(r)

Spec == Init /\ [][Next]_vars

\* The browser delivers every message and runs every callback that is due;
\* nothing obliges the user to act or the service worker to be stopped.
Deliveries ==
  \/ \E r \in InFlight : RelayOnMessage(r)
  \/ \E r \in InFlight, activeTab \in Tabs : RelayTabsQuery(r, activeTab)
  \/ \E r \in InFlight : RelaySendMessageCallback(r)
  \/ \E r \in InFlight : ContentOnMessage(r)
  \/ \E r \in InFlight : NoReceiver(r)
  \/ PopupOnMessage
  \/ \E r \in InFlight : StartCallback(r)

FairSpec == Spec /\ WF_vars(Deliveries)

\* The extension on a page whose content script also receives cancelScraping
\* messages: the protocol's cancel command, which the popup never sends.
NextCancel ==
  \/ Next
  \/ TabsSendMessage("cancelScraping")

SpecCancel == Init /\ [][NextCancel]_vars

\* The popup alone. Its request is answered by the relay with any of the
\* relay's responses, or its callback runs with chrome.runtime.lastError.
RelayResponses == {StartedReply, NoActiveTabError, ContentUnavailableError}

RelayAnswers(r, value, portError) ==
  /\ BagIn(r, reqs) /\ r.stage = "toRelay" /\ r.sender = "popup"
  /\ reqs' = Replace(r, [r EXCEPT !.stage = "toSender",
                                  !.value = IF portError THEN Undefined ELSE value,
                                  !.portError = portError])
  /\ Step("channel", 0, "", <<>>, FALSE)
  /\ UNCHANGED <<contentVars, toPopup, popupVars, nSelect, nUiSend, apiVars>>

\* Messages chrome.runtime.onMessage hands to the popup's listener: the
\* results a content script sends for an element, and messages that are no
\* result.
PopupMessages ==
  {[action |-> "elementSelected", data |-> SelectionData(Page, el)] :
     el \in Positions}
  \cup {[action |-> "elementSelected", data |-> NoData],
        [action |-> "ping", data |-> NoData]}

\* The listener run on a message as it arrives.
PopupReceives(message) ==
  /\ LET res == messageListener(message, data, isScraping)
     IN /\ data' = res.data
        /\ isScraping' = res.isScraping
        /\ Step("messageListener", 0, message.action, res.response,
                scraperState.isActive)
  /\ UNCHANGED <<contentVars, reqs, toPopup, statusMessage, saving, submitted, nSelect,
               nUiSend, apiVars>>

NextPopup ==
  \/ \E field \in UserFields : handleSelect(field)
  \/ \E r \in InFlight : StartCallback(r)
  \/ \E r \in InFlight, value \in RelayResponses, portError \in BOOLEAN :
       RelayAnswers(r, value, portError)
  \/ \E message \in PopupMessages : PopupReceives(message)

SpecPopup == Init /\ [][NextPopup]_vars

\* The popup's record and its saving: fields are selected and captured, and
\* the record is saved, in any order.
NextSave ==
  \/ \E field \in UserFields : handleSelect(field)
  \/ \E message \in PopupMessages : PopupReceives(message)
  \/ handleSave
  \/ \E ok \in SaveOutcomes : SaveSettles(ok)

SpecSave == Init /\ [][NextSave]_vars

\* createCssSelector alone, applied to any element of any document.
InitLocator ==
  /\ doc \in Documents
  /\ scraperState = IdleState
  /\ overlayNodes = {}
  /\ outline = {}
  /\ cursor = ""
  /\ listeners = {}
  /\ reqs = EmptyBag
  /\ toPopup = <<>>
  /\ data = EmptyData
  /\ isScraping = NoField
  /\ statusMessage = ""
  /\ saving = 0
  /\ submitted = <<>>
  /\ nSelect = 0
  /\ nUiSend = 0
  /\ applications = {}
  /\ nextId = 1
  /\ response = NoResponse
  /\ createdBy = <<>>
  /\ last = [op |-> "init", node |-> 0, info |-> "", out |-> <<>>, wasActive |-> FALSE]

Locate(el) ==
  /\ Step("createCssSelector", el, createCssSelector(el, {}),
          SelectorParts(el, {}, <<>>), FALSE)
  /\ UNCHANGED <<contentVars, reqs, toPopup, popupVars, nSelect, nUiSend, apiVars>>

NextLocator == \E el \in PageElements : Locate(el)

SpecLocator == InitLocator /\ [][NextLocator]_vars

\* The relay between its two kinds of senders: any page of the extension,
\* sending any request, and the content script, whose messages are the
\* results of clicks (pointer moves and key presses send nothing).
NextRelay ==
  \/ \E pos \in Positions, trusted \in BOOLEAN : Click(pos, trusted)
  \/ RelayActions
  \/ PopupOnMessage
  \/ \E action \in UiActions : UiSend(action)
  \/ \E r \in InFlight : UiCallback(r)
  \/ \E r \in InFlight : ChannelClosed(r)

SpecRelay == Init /\ [][NextRelay]_vars

\* The applications-create handler alone, on any request.
NextCreate == \E req \in CreateRequests : HandleCreate(req)

SpecCreate == Init /\ [][NextCreate]_vars

\* The served functions, on any request of any caller.
NextServed ==
  \/ \E auth \in AuthResults, body \in ServedBodies, db \in DbOutcomes :
       ServeCreate("POST", auth, body, db)
  \/ \E method \in {"GET", "OPTIONS"} :
       ServeCreate(method, PlainRequest.auth, PlainRequest.body, "ok")
  \/ \E auth \in AuthResults, id \in ApplicationIds, body \in ServedBodies,
        db \in WriteOutcomes :
       ServeUpdate("PATCH", auth, id, body, db)
  \/ \E method \in {"GET", "OPTIONS"} :
       ServeUpdate(method, PlainRequest.auth, 1, [status |-> "Offer"], "ok")
  \/ \E auth \in AuthResults, id \in ApplicationIds, db \in WriteOutcomes :
       ServeDelete("DELETE", auth, id, db)
  \/ \E method \in {"GET", "OPTIONS"} :
       ServeDelete(method, PlainRequest.auth, 1, "ok")

SpecServed == Init /\ [][NextServed]_vars

\* ------------------------------------------------------------ properties
Active == scraperState.isActive
KeydownListeners == {l \in listeners : l.type = "keydown"}
ClickSteps == {"click", "scriptClick"}
\* The page as it was before the selection: nothing of the engine is left.
PageRestored ==
  /\ ~Active
  /\ overlayNodes = {}
  /\ outline = {}
  /\ cursor = "default"

\* C1: a click delivered while the engine is Active has its default action
\* suppressed, emits one elementSelected result with the locator and trimmed
\* text of the clicked element, and leaves the engine Idle with the overlay
\* removed, no outline, the default cursor and every listener of the cycle
\* (mouseover, click, keydown) detached.
C1_ClickFullCleanup ==
  last.op \in ClickSteps =>
    /\ last.wasActive
    /\ last.info = "defaultPrevented"
    /\ Len(last.out) = 1
    /\ last.out[1].action = "elementSelected"
    /\ last.out[1].data.textContent = trim(last.out[1].data.textContent)
    /\ PageRestored
    /\ listeners = {}

\* C2: a startScraping command received while Active changes nothing of the
\* page and is answered {status: 'Scraping started'}; an Active engine has
\* exactly one overlay node and one mouseover and one click listener, and a
\* click runs the click handler once, giving exactly one result.
C2_StartWhileActive ==
  \A action \in UiActions :
    (Active /\ action = "startScraping" /\ TabsSendMessage(action)) =>
      /\ UNCHANGED contentVars
      /\ last'.out = StartedReply

C2_OneOverlay ==
  /\ Active => /\ Cardinality(overlayNodes) = 1
               /\ scraperState.overlay \in overlayNodes
               /\ Cardinality({l \in listeners : l.type = "mouseover"}) = 1
               /\ Cardinality({l \in listeners : l.type = "click"}) = 1
  /\ ~Active => overlayNodes = {}
  /\ last.op \in ClickSteps => Len(last.out) = 1

C4_Emission ==
  /\ (toPopup' # toPopup /\ Len(toPopup') >= Len(toPopup)) =>
       /\ Active /\ ~Active'
       /\ toPopup' = Append(toPopup, last'.out[1])
       /\ last'.out[1].action = "elementSelected"
  /\ (\E pos \in Positions, trusted \in BOOLEAN : Click(pos, trusted)) =>
       /\ Active => (~Active' /\ Len(toPopup') = Len(toPopup) + 1)
       /\ ~Active => (toPopup' = toPopup /\ reqs' = reqs)

C5_OverlayTransparent ==
  /\ scraperState.highlightedEl \notin OverlayHandles
  /\ last.op = "click" =>
       /\ last.node \notin OverlayHandles
       /\ last.out[1].data.selector # "div#" \o OverlayId
       /\ last.out[1].data.textContent # OverlayText

\* C6: a message sent by a content script (sender.tab set) is never forwarded
\* to a tab and starts no tab lookup, whatever it carries; the requests that
\* are looked up, forwarded or answered are those of extension pages.
C6_ContentNeverForwarded ==
  \A r \in InFlight : r.stage # "toRelay" => r.sender # "content"

\* The relay has dropped a result of the content script while a request of an
\* extension page was on its way.
C6_Witness ==
  /\ last.op = "relayDrop"
  /\ \E r \in InFlight : r.sender = "ui"

\* C7: with no active tab the relay answers a request of an extension page
\* with {error: 'No active tab found.'} and forwards nothing; the step
\* touches nothing else, so every other request is serviced as before.
C7_NoTabStep ==
  \A r \in InFlight :
    RelayTabsQuery(r, "none") =>
      /\ reqs' = Replace(r, [r EXCEPT !.stage = "toSender",
                                      !.value = NoActiveTabError])
      /\ UNCHANGED <<contentVars, toPopup, popupVars>>

C7_NoTabAnswered ==
  \A r \in InFlight :
    (r.tab = "none" /\ r.stage \notin {"toRelay", "query"}) =>
      /\ r.stage = "toSender"
      /\ r.reply = Undefined
      /\ r.portError \/ r.value = NoActiveTabError

\* C7: with no active tab the response is the no-active-tab error and nothing
\* is forwarded.
C7_NoActiveTab == [][C7_NoTabStep]_vars /\ []C7_NoTabAnswered

\* The error answer is on its way to the sender while the relay has serviced
\* another request up to the content script's reply.
C7_Witness ==
  \E r, q \in InFlight :
    /\ r.stage = "toSender" /\ r.value = NoActiveTabError
    /\ q.stage = "toSender" /\ q.value = StartedReply

\* C8: for a request of an extension page forwarded to the active tab, the
\* response is the content script's reply as it was given, or {error:
\* 'Content script not available or not listening.'} when the tab runs no
\* content script or the listener did not answer; there is no other response.
C8_ForwardedResponse ==
  \A r \in InFlight :
    (r.stage = "toSender" /\ r.tab # "none" /\ ~r.portError) =>
      /\ r.sender # "content"
      /\ IF r.lastError
         THEN r.value = ContentUnavailableError /\ r.reply = Undefined
         ELSE r.value = r.reply /\ r.reply \in {StartedReply, CanceledReply}
      /\ r.tab = "bare" => r.lastError
      /\ (r.tab = "page" /\ r.msg.action = "startScraping") =>
           r.value = StartedReply
      /\ (r.tab = "page" /\ r.msg.action = "cancelScraping") =>
           r.value = CanceledReply

\* Both kinds of response are on their way to their senders.
C8_Witness ==
  \E r, q \in InFlight :
    /\ r.stage = "toSender" /\ r.tab = "page" /\ r.value = CanceledReply
    /\ q.stage = "toSender" /\ q.tab = "bare" /\ q.value = ContentUnavailableError

\* C9: within one selection cycle the popup observes the acknowledgment of
\* its start request before the elementSelected result: when the listener
\* merges a result into the pending field, the callback of that field's start
\* request has run.
C9_Merge ==
  (PopupOnMessage /\ messageListener(Head(toPopup), data, isScraping).response
                       = SuccessReply) =>
    ~ \E r \in InFlight : r.sender = "popup" /\ r.field = isScraping

\* C9: the popup merges a result only after the acknowledgment's callback.
C9_AckObservedFirst == [][C9_Merge]_vars

\* C9 as amended: the content script sends the acknowledgment before it
\* emits the result: the engine becomes Active only in the listener run that
\* answers {status: 'Scraping started'}, and a result is emitted only while
\* Active.
C9_Activation ==
  /\ (~Active /\ Active') =>
       \E r \in InFlight :
         /\ r.stage = "toContent" /\ r.msg.action = "startScraping"
         /\ reqs' = Replace(r, [r EXCEPT !.stage = "toRelayCb",
                                         !.reply = StartedReply])
  /\ Len(toPopup') > Len(toPopup) => Active

\* C9 (amended): the acknowledgment is sent before the result is emitted.
C9_AckSentFirst == [][C9_Activation]_vars

\* The result is on its way to the popup while the acknowledgment of the
\* cycle's start request has been sent and not yet observed.
C9_Witness ==
  /\ toPopup # <<>>
  /\ isScraping # NoField
  /\ \E r \in InFlight :
       /\ r.sender = "popup" /\ r.field = isScraping
       /\ r.reply = StartedReply
       /\ r.stage \in {"toRelayCb", "toSender"}

\* C10: when Escape is pressed while the engine is Active and the popup waits
\* on a field, no result is emitted, no record field changes, and the popup's
\* waiting state is eventually cleared.
C10_EscapeStep ==
  (KeyDown("Escape") /\ Active) => (toPopup' = toPopup /\ data' = data)

\* C10: Escape emits nothing, changes no field, and the popup stops waiting.
C10_CancelReachesPopup ==
  /\ [][C10_EscapeStep]_vars
  /\ [](( /\ last.op = "keydown" /\ last.wasActive
          /\ isScraping # NoField)
        => <>(isScraping = NoField))

\* C11: an error exit of the click handler leaves the engine Idle with
\* cleanup done: after a click whose handling threw, isActive is false, no
\* overlay is present, no engine listener is attached and the cursor is not
\* the crosshair.
C11_ErrorExitCleansUp ==
  last.op = "clickThrew" =>
    /\ ~Active
    /\ overlayNodes = {}
    /\ listeners \cap {MouseoverL, ClickL} = {}
    /\ cursor # "crosshair"

\* The number of requests of the popup whose callback has not run.
PopupRequests(B) ==
  BagCardinality([r \in {x \in BagToSet(B) : x.sender = "popup"} |-> B[r]])

C12_TypeOK == isScraping \in Fields \cup {NoField}

C12_Step ==
  isScraping # NoField =>
    /\ PopupRequests(reqs') <= PopupRequests(reqs)
    /\ isScraping' \in {isScraping, NoField}

\* C12: the pending field is none or one of the four fields, and while a
\* field is pending no step sends a start request or replaces the pending
\* field by another.
C12_SinglePending == []C12_TypeOK /\ [][C12_Step]_vars

\* A field is pending while the user could still press a Select button.
C12_Witness ==
  /\ isScraping # NoField
  /\ nSelect < MaxSelects
  /\ last.op = "handleSelect"

\* C13: at every moment at most one request sent by the popup is awaiting its
\* response.
C13_OneRequestInFlight == PopupRequests(reqs) <= 1

\* C14: the popup is in the waiting state for a field only after the
\* acknowledgment of that field's start request has been received: while a
\* field is pending, the callback of its request has run.
C14_WaitingAfterAck ==
  isScraping # NoField =>
    ~ \E r \in InFlight : r.sender = "popup" /\ r.field = isScraping

C14_Entering ==
  (isScraping' # isScraping /\ isScraping' # NoField) =>
    /\ isScraping = NoField
    /\ reqs' = Add(NewReq("popup", isScraping', StartMsg))

\* C14 (amended): the popup enters the waiting state for a field in the step
\* that sends the start request for that field, before any acknowledgment.
C14_WaitingOnSend == [][C14_Entering]_vars

\* The popup waits on a field whose start request has not reached the relay.
C14_Witness ==
  /\ isScraping # NoField
  /\ \E r \in InFlight :
       r.sender = "popup" /\ r.field = isScraping /\ r.stage = "toRelay"

C15_MergeStep ==
  \A message \in PopupMessages :
    PopupReceives(message) =>
      /\ (message.action = "elementSelected" /\ message.data # NoData
          /\ isScraping # NoField) =>
           /\ data'[isScraping] = message.data.textContent
           /\ \A g \in Fields \ {isScraping} : data'[g] = data[g]
           /\ isScraping' = NoField
           /\ last'.out = SuccessReply
      /\ isScraping = NoField => UNCHANGED <<data, isScraping>>

\* C15: an elementSelected message arriving while a field is pending puts its
\* text into that field only, clears the pending field and is answered
\* {status: 'success'}; arriving while none is pending it changes nothing.
C15_ResultMerge == [][C15_MergeStep]_vars

\* The result of a click on <h1 id="title"> has been merged into jobTitle
\* while companyName, captured before, is kept.
C15_Witness ==
  /\ last.op = "messageListener" /\ last.out = SuccessReply
  /\ data["jobTitle"] = <<"Staff", " ", "Engineer">>
  /\ data["companyName"] = <<"Hi">>
  /\ isScraping = NoField

HasId(e) == IdOf[e] # ""

\* C16: the locator computed for an element with an id (the document root
\* and its children included) selects exactly that element in its document.
C16_IdRoundTrip ==
  (last.op = "createCssSelector" /\ HasId(last.node)) =>
    querySelectorAll(last.info) = {last.node}

\* The children of e's parent that have e's tag name.
SameTagChildren(e) ==
  {x \in PageElements : ParentOf[x] = ParentOf[e] /\ TagOf[x] = TagOf[e]}

\* Tag name and classes of e, as tag.a.b
TagAndClasses(e) ==
  IF ClassListOf[e] = <<>> THEN toLowerCase(TagOf[e])
  ELSE toLowerCase(TagOf[e]) \o "." \o join(ClassListOf[e], ".")

\* C17: the descriptor of an element without id under a parent ends with
\* :nth-of-type(k), k its 1-based position among the parent's children of its
\* tag, exactly when there are two or more such children; same-tag children
\* without id get different descriptors; the second of the two
\* <li class="item"> gets li.item:nth-of-type(2).
C17_PositionalQualifier ==
  (last.op = "createCssSelector" /\ ~HasId(last.node)
   /\ ParentOf[last.node] # NULL) =>
    LET E == last.node
        descriptor == last.out[Len(last.out)]
    IN /\ descriptor =
            IF Cardinality(SameTagChildren(E)) >= 2
            THEN TagAndClasses(E) \o ":nth-of-type("
                   \o ToString(NthOfType(E)) \o ")"
            ELSE TagAndClasses(E)
       /\ \A x \in SameTagChildren(E) \ {E} :
            ~HasId(x) => SelectorPart(x, {}) # descriptor
       /\ (doc = StaffPage /\ E = 6) => descriptor = "li.item:nth-of-type(2)"

C17_Witness ==
  /\ last.op = "createCssSelector"
  /\ doc = StaffPage /\ last.node = 6
  /\ last.info = "body > ul > li.item:nth-of-type(2)"

\* C18: the locator of the document root is one descriptor, the root's own,
\* and not the empty string.
C18_RootLocator ==
  (last.op = "createCssSelector" /\ ParentOf[last.node] = NULL) =>
    /\ Len(last.out) = 1
    /\ last.info # ""
    /\ last.info \in CompoundsOf(last.node)

C19_OneOutline ==
  /\ Cardinality(outline) <= 1
  /\ outline # {} => outline = {scraperState.highlightedEl}
  /\ last.op = "mouseover" =>
       /\ scraperState.highlightedEl = last.node
       /\ outline = {last.node}

C19_MoveStep ==
  \A pos \in Positions :
    (MouseOver(pos) /\ MouseoverL \in listeners
     /\ scraperState.highlightedEl # NULL
     /\ scraperState'.highlightedEl # scraperState.highlightedEl) =>
      scraperState.highlightedEl \notin outline'

\* C19: at most one element carries the outline, and it is highlightedEl, the
\* target of the latest pointer move; a move to another element takes the
\* outline off the element highlighted before.
C19_Highlighting == []C19_OneOutline /\ [][C19_MoveStep]_vars

\* The pointer has moved from the overlay to the toast: the toast alone is
\* outlined.
C19_Witness ==
  /\ last.op = "mouseover"
  /\ last.info = "8" /\ last.node = 7
  /\ outline = {7}

C20_SaveStep ==
  /\ \A ok \in SaveOutcomes :
       SaveSettles(ok) =>
         IF ok
         THEN \A f \in Fields : data'[f] = <<>>
         ELSE /\ data' = data
              /\ statusMessage' = "Error: Could not save application."
              /\ saving' < saving
  /\ saving' > saving => (handleSave /\ saving' = saving + 1)

CreateStep ==
  /\ last'.op = "handler"
  /\ last'.out.method = "POST"
  /\ last'.out.configured

\* The caller of the step is authenticated: getUser returned a user and no
\* error.
AuthenticatedStep ==
  /\ CreateStep
  /\ ~last'.out.auth.error
  /\ last'.out.auth.user # NoUser

\* The step stored exactly one row, owned by its caller, and answered 201
\* with that row.
CreatedOne ==
  \E row \in applications' \ applications :
    /\ applications' = applications \cup {row}
    /\ row.user_id = last'.out.auth.user
    /\ response' = Json(201, row)

C22_Unauthorized ==
  [][CreateStep /\ (last'.out.auth.error \/ last'.out.auth.user = NoUser) =>
       /\ response' = Json(401, [error |-> "Unauthorized"])
       /\ applications' = applications]_vars

C22_Witness ==
  /\ last.op = "handler"
  /\ last.out.auth = [error |-> TRUE, user |-> "1a"]
  /\ last.out.valid /\ last.out.db = "ok"
  /\ response.status = 401
  /\ applications = {}

ServedWrite == last'.op \in {"serveUpdate", "serveDelete"}

TargetOwned ==
  /\ \E row \in applications : row.id = last'.node
  /\ createdBy[last'.node] = last'.info

RECURSIVE WalkFrom(_)
WalkFrom(e) ==
  IF HasId(e) \/ ParentOf[e] = NULL THEN <<e>>
  ELSE WalkFrom(ParentOf[e]) \o <<e>>

\* C24: a locator is its descriptors joined by ' > ', one for each node from
\* the nearest ancestor-or-self with an id (from the root when the path has
\* no id) down to the element, in that order; the descriptor of the node with
\* the id is exactly tag#id and comes first.
C24_LocatorStructure ==
  last.op = "createCssSelector" =>
    LET walk == WalkFrom(last.node)
    IN /\ last.info = join(last.out, " > ")
       /\ Len(last.out) = Len(walk)
       /\ \A i \in 1..Len(walk) : last.out[i] \in CompoundsOf(walk[i])
       /\ HasId(walk[1]) =>
            last.out[1] = toLowerCase(TagOf[walk[1]]) \o "#" \o IdOf[walk[1]]

\* The step ends an Active cycle and emits no result.
EndsWithoutResult == Active /\ ~Active' /\ toPopup' = toPopup

\* C25 as stated: the only step that takes the engine from Active to Idle
\* without emitting a result is an Escape key press.
C25_OnlyEscape ==
  [][EndsWithoutResult => (last'.op = "keydown" /\ last'.info = "Escape")]_vars

\* C25: a step that takes the engine from Active to Idle without emitting a
\* result is an Escape key press or the receipt of a cancelScraping message;
\* every other step that ends an Active cycle is a click that emits a result,
\* so with none of the three the engine stays Active; and the popup leaves
\* its waiting state only when its listener receives a result or the callback
\* of its start request runs with lastError set, never by itself.
C25_EndsOfCycle ==
  [][/\ EndsWithoutResult =>
          \/ last'.op = "keydown" /\ last'.info = "Escape"
          \/ last'.op = "contentOnMessage" /\ last'.info = "cancelScraping"
     /\ (Active /\ ~Active' /\ ~EndsWithoutResult) =>
          /\ last'.op \in ClickSteps
          /\ Len(toPopup') = Len(toPopup) + 1
     /\ (isScraping # NoField /\ isScraping' = NoField) =>
          \/ last'.op = "messageListener" /\ last'.info = "elementSelected"
          \/ last'.op = "startCallback" /\ last'.info = "lastError"]_vars

\* A cancelScraping message has ended an Active cycle while the popup waits.
C25_Witness ==
  /\ last.op = "contentOnMessage" /\ last.info = "cancelScraping"
  /\ last.wasActive /\ ~Active
  /\ isScraping # NoField
  /\ toPopup = <<>>

\* The state after the content script has handled a cancelScraping message.
C26_AfterCancel ==
  (last.op = "contentOnMessage" /\ last.info = "cancelScraping") =>
    /\ last.out = CanceledReply
    /\ ~Active
    /\ last.wasActive => (PageRestored /\ listeners = {})

C26_CancelWhileIdle ==
  (~Active /\ TabsSendMessage("cancelScraping")) => UNCHANGED contentVars

\* C26: a cancelScraping message is always answered {status: 'Scraping
\* canceled'} and leaves the engine Idle; received while Active it removes the
\* overlay, clears the outline, restores the cursor and detaches every
\* listener of the cycle; received while Idle it changes nothing of the page.
C26_CancelCommand == []C26_AfterCancel /\ [][C26_CancelWhileIdle]_vars

\* The number of requests of bag B that have their response.
AnsweredCount(B) ==
  LET S == {r \in BagToSet(B) : r.stage = "toSender"}
      RECURSIVE Sum(_)
      Sum(T) == IF T = {} THEN 0
                ELSE LET r == CHOOSE x \in T : TRUE
                     IN CopiesIn(r, B) + Sum(T \ {r})
  IN Sum(S)

\* The response the relay gives to request r, from r's own forward alone.
OutcomeOf(r) ==
  IF r.stage = "query" THEN NoActiveTabError
  ELSE IF r.lastError THEN ContentUnavailableError
  ELSE r.reply

\* A step in which one more request has its response: it is one request r
\* that was not answered, now answered with the outcome of its own forward
\* (or failed with its port), every other request and the rest of the state
\* being as before.
C28_AnswerStep ==
  AnsweredCount(reqs') > AnsweredCount(reqs) =>
    /\ \E r \in InFlight :
         /\ r.stage \in {"query", "toRelayCb"}
         /\ r.value = Undefined
         /\ \/ reqs' = Replace(r, [r EXCEPT !.stage = "toSender",
                                            !.value = OutcomeOf(r)])
            \/ reqs' = Replace(r, [r EXCEPT !.stage = "toSender",
                                            !.portError = TRUE])
    /\ UNCHANGED <<contentVars, toPopup, popupVars>>

\* A request that has its response is never answered again: it stays as it
\* is until its sender's callback takes it.
C28_AnsweredOnce ==
  \A r \in InFlight :
    r.stage = "toSender" =>
      /\ CopiesIn(r, reqs') >= CopiesIn(r, reqs) - 1
      /\ CopiesIn(r, reqs') < CopiesIn(r, reqs) =>
           BagCardinality(reqs') = BagCardinality(reqs) - 1

\* C28: the relay keeps nothing between requests: with several requests of
\* extension pages in flight, each gets at most one response, which is the
\* outcome of its own forward.
C28_OwnResponse == [][C28_AnswerStep /\ C28_AnsweredOnce]_vars

\* Two requests of extension pages, a start and a cancel, are answered at the
\* same time, each with the content script's reply to it.
C28_Witness ==
  \E r, q \in InFlight :
    /\ r.sender = "ui" /\ q.sender = "ui"
    /\ r.stage = "toSender" /\ q.stage = "toSender"
    /\ r.msg.action = "startScraping" /\ r.value = StartedReply
    /\ q.msg.action = "cancelScraping" /\ q.value = CanceledReply

\* The callback of a start request runs on one of the relay's error payloads.
C29_ErrorCallback ==
  \A r \in InFlight :
    (/\ StartCallback(r)
     /\ ~r.portError
     /\ r.value \in {NoActiveTabError, ContentUnavailableError}) =>
      isScraping' = NoField

\* C29: when the response to a start request is a relay error payload, the
\* popup leaves the waiting state: after the callback the pending field is
\* none and the select triggers are enabled.
C29_RelayErrorClearsWaiting == [][C29_ErrorCallback]_vars

\* A save succeeds: every value its reset erases is in a record that was
\* handed to the persistence call.
C30_ResetStep ==
  SaveSettles(TRUE) =>
    \A f \in Fields :
      data[f] # <<>> =>
        \E i \in 1..Len(submitted) : submitted[i][f] = data[f]

\* C30: a field value merged into the record while a save is in flight is
\* never erased by that save's success reset without having been part of a
\* submitted record: the reset clears only values that were handed to the
\* persistence collaborator.
C30_ResetOnlySubmitted == [][C30_ResetStep]_vars

====
